---- MODULE Spec2Model ----
(***************************************************************************)
(* Reconciliation of scraped exhibition records against the exhibition     *)
(* collection (artbase-data-processor).                                    *)
(*                                                                         *)
(* Two implementations of processScrapeResults are in the repository and   *)
(* both are modelled:                                                      *)
(*   "batch"  - services/exhibition.service (batch version): groups of     *)
(*              BATCH_SIZE records, one db.runTransaction per group;       *)
(*   "legacy" - src/services/exhibition.service.ts: one collection read    *)
(*              (fetchExistingExhibitions) and then one direct             *)
(*              update()/set() per record.                                 *)
(* Spec runs up to two calls of either, SpecBatch one batch call on        *)
(* inputs around the group size.  SpecCalls applies the functions that     *)
(* exist in several versions on their own: areDatesEqual (utils/date.ts    *)
(* and its ''-based version), buildMuseumMaps (with and without alias      *)
(* IDs), and the document a create writes (batch, legacy, and the route    *)
(* handlers that reconcile inline), and also fetchEnabledMuseumsWithUrls,  *)
(* runActorAndGetResults and one record reconciled by successive runs.     *)
(* SpecCurated is one run beside a curator who activates, excludes or      *)
(* adds documents; SpecLate starts from a collection that earlier runs     *)
(* left, with a legacy run that read the collection before them.           *)
(*                                                                         *)
(* JavaScript values are records [k, v]: k is the type tag and v the       *)
(* payload (0 where the type has none).  A calendar date string is the     *)
(* number of its day; the empty string is the string with payload 0.       *)
(***************************************************************************)
EXTENDS Integers, Sequences, FiniteSets, TLC

\* ------------------------------------------------------------------ bounds
MaxRecords == 2     \* records of the freely drawn inputs, all runs together
MaxClock == 1       \* last instant Timestamp.now() can return
MaxAttempts == 1    \* re-invocations of a transaction callback by the store
MaxN == 150         \* records of a generated input (batching)
MaxDay == 3         \* calendar days of the dates compared on their own
MaxMuseums == 2     \* venues of a registry the venue maps are built from
MaxAliases == 2     \* aliases of one venue of such a registry
MaxGroup == 3       \* records of a group prepared on its own

\* ------------------------------------------------------- program constants
BATCH_SIZE == 100
\* "Firestore transaction limit is 500 documents" (part_004, line 184).
TransactionLimit == 500

\* ------------------------------------------------------------------ values
Null == [k |-> "null", v |-> 0]
Undefined == [k |-> "undefined", v |-> 0]
Str(s) == [k |-> "string", v |-> s]
EmptyString == Str(0)
Timestamp(t) == [k |-> "Timestamp", v |-> t]

\* JavaScript truthiness of a value: null, undefined and '' are falsy.
Truthy(x) == x.k = "Timestamp" \/ (x.k = "string" /\ x.v # 0)

\* Timestamp.fromDate(new TZDate(s, 'Asia/Tokyo')): 00:00 of day s in
\* Asia/Tokyo (UTC+9), in seconds.
TokyoMidnight(s) == Timestamp(s.v * 86400 - 32400)

Slots == {1, 2}
\* Slot 1 is a request to POST /scrape, slot 2 one to POST /scrape-feed
\* (routes/exhibition.ts, lines 40 and 83).
OriginOf(r) == IF r = 1 THEN "scrape" ELSE "scrape-feed"
Zero == [created |-> 0, updated |-> 0, skipped |-> 0, errors |-> 0]

\* ---------------------------------------------------------- venue registry
Registry ==
  << [id |-> "m1", name |-> "M", aliases |-> <<"A">>] >>

AddAliases(map, aliases, name) ==
  LET RECURSIVE Go(_, _)
      Go(m, j) ==
        IF j > Len(aliases) THEN m
        ELSE Go([x \in DOMAIN m \cup {aliases[j]} |->
                   IF x = aliases[j] THEN name ELSE m[x]], j + 1)
  IN Go(map, 1)

Put(map, key, val) ==
  [x \in DOMAIN map \cup {key} |-> IF x = key THEN val ELSE map[x]]

EmptyMap == [x \in {} |-> 0]

\* A faulty buildMuseumMaps: the canonical name is not mapped to itself.
buildMuseumMapsAliasesOnly(museums) ==
  LET RECURSIVE Go(_, _, _)
      Go(aliasToName, nameToId, j) ==
        IF j > Len(museums)
        THEN [aliasToName |-> aliasToName, nameToId |-> nameToId]
        ELSE LET museum == museums[j]
             IN Go(AddAliases(aliasToName, museum.aliases, museum.name),
                   Put(nameToId, museum.name, museum.id),
                   j + 1)
  IN Go(EmptyMap, EmptyMap, 1)

\* A faulty buildMuseumMaps: the ID is registered inside the loop over the
\* aliases, so a venue without aliases gets none.
buildMuseumMapsIdInLoop(museums) ==
  LET RECURSIVE Go(_, _, _)
      Go(aliasToName, nameToId, j) ==
        IF j > Len(museums)
        THEN [aliasToName |-> aliasToName, nameToId |-> nameToId]
        ELSE LET museum == museums[j]
             IN Go(AddAliases(Put(aliasToName, museum.name, museum.name),
                              museum.aliases, museum.name),
                   IF museum.aliases = <<>> THEN nameToId
                   ELSE Put(nameToId, museum.name, museum.id),
                   j + 1)
  IN Go(EmptyMap, EmptyMap, 1)

\* museum.service.ts, lines 40-58.
buildMuseumMaps(museums) ==
  LET RECURSIVE Go(_, _, _)
      Go(aliasToName, nameToId, j) ==
        IF j > Len(museums)
        THEN [aliasToName |-> aliasToName, nameToId |-> nameToId]
        ELSE LET museum == museums[j]
             IN Go(AddAliases(Put(aliasToName, museum.name, museum.name),
                              museum.aliases, museum.name),
                   Put(nameToId, museum.name, museum.id),
                   j + 1)
  IN Go(EmptyMap, EmptyMap, 1)

\* The version of buildMuseumMaps that also maps each alias to the ID
\* (part_003, lines 40-59).
buildMuseumMapsWithAliasIds(museums) ==
  LET RECURSIVE Go(_, _, _)
      Go(aliasToName, nameToId, j) ==
        IF j > Len(museums)
        THEN [aliasToName |-> aliasToName, nameToId |-> nameToId]
        ELSE LET museum == museums[j]
             IN Go(AddAliases(Put(aliasToName, museum.name, museum.name),
                              museum.aliases, museum.name),
                   AddAliases(Put(nameToId, museum.name, museum.id),
                              museum.aliases, museum.id),
                   j + 1)
  IN Go(EmptyMap, EmptyMap, 1)

museumMaps == buildMuseumMaps(Registry)

NoVenue == "null"

\* museumMaps.aliasToName.get(venue) ?? null
normalizeVenue(venue, maps) ==
  IF venue \in DOMAIN maps.aliasToName THEN maps.aliasToName[venue] ELSE NoVenue

\* A faulty getMuseumId: a name without an ID is used as the ID.
getMuseumIdFallback(venueName, maps) ==
  IF venueName \in DOMAIN maps.nameToId /\ maps.nameToId[venueName] # ""
  THEN maps.nameToId[venueName]
  ELSE venueName

\* The ID, or "NotFoundError" where the code throws it ('' is falsy too).
getMuseumId(venueName, maps) ==
  IF venueName \in DOMAIN maps.nameToId /\ maps.nameToId[venueName] # ""
  THEN maps.nameToId[venueName]
  ELSE "NotFoundError"

\* The document ID is a content hash of (museumId, title).
getExhibitionDocumentId(museumId, title) == <<museumId, title>>

\* The first version of POST /scrape (src/exhibition.ts, lines 141-147)
\* derives the document ID from the title and the venue as scraped, each
\* with its whitespace removed.  A string is here the sequence of its
\* characters, and the MD5 digest is taken to be collision-free.
RemoveWhitespace(text) == SelectSeq(text, LAMBDA c : c # " ")
getDocumentHash(title, venue) ==
  <<"md5", RemoveWhitespace(title), "_", RemoveWhitespace(venue)>>

\* ------------------------------------------------------------ areDatesEqual
\* utils/date.ts.  "true" / "false", or "TypeError" where existing.isEqual is
\* called on a value that is no Timestamp (a stored '').
areDatesEqual(existing, incoming) ==
  LET incomingDate == IF Truthy(incoming) THEN TokyoMidnight(incoming) ELSE Undefined
  IN IF existing = Undefined /\ incomingDate = Undefined THEN "true"
     ELSE IF existing = Undefined \/ incomingDate = Undefined THEN "false"
     ELSE IF existing.k # "Timestamp" THEN "TypeError"
     ELSE IF existing = incomingDate THEN "true" ELSE "false"

\* utils/date (part_005, lines 7-25), the version whose absent date is the
\* empty string.  "TypeError" where existing.isEqual is called on a value
\* that is no Timestamp (undefined, of a document without the field).
areDatesEqualStrings(existing, incoming) ==
  LET incomingDate == IF Truthy(incoming) THEN TokyoMidnight(incoming) ELSE EmptyString
  IN IF existing.k = "string" /\ incomingDate.k = "string" THEN "true"
     ELSE IF existing.k = "string" \/ incomingDate.k = "string" THEN "false"
     ELSE IF existing.k # "Timestamp" THEN "TypeError"
     ELSE IF existing = incomingDate THEN "true" ELSE "false"

\* --------------------------------------------------------------- documents
\* A document snapshot: exists, and data() (Undefined when it has none).
NoSnapshot == [exists |-> FALSE, data |-> Undefined]
Snapshot(store_, id) ==
  IF id \in DOMAIN store_ THEN [exists |-> TRUE, data |-> store_[id]] ELSE NoSnapshot

\* The document the batch version creates (part_004, lines 135-153): an
\* absent date is left out of the document.
newExhibitionBatch(exhibition, museumId, canonicalVenueName, origin, t1, t2) ==
  [ title |-> exhibition.title,
    venue |-> canonicalVenueName,
    museumId |-> museumId,
    startDate |-> IF Truthy(exhibition.startDate)
                  THEN TokyoMidnight(exhibition.startDate) ELSE Undefined,
    endDate |-> IF Truthy(exhibition.endDate)
                THEN TokyoMidnight(exhibition.endDate) ELSE Undefined,
    status |-> "pending",
    origin |-> origin,
    isExcluded |-> FALSE,
    hasDateChanged |-> FALSE,
    createdAt |-> Timestamp(t1),
    updatedAt |-> Timestamp(t2),
    officialUrl |-> IF origin = "scrape" /\ Truthy(exhibition.officialUrl)
                    THEN exhibition.officialUrl ELSE Undefined ]

\* A faulty update: it writes createdAt as a creation does.
updateFieldsBatchStamping(exhibition, t) ==
  LET base == [hasDateChanged |-> TRUE, updatedAt |-> Timestamp(t),
               createdAt |-> Timestamp(t)]
      withStart == IF Truthy(exhibition.startDate)
                   THEN Put(base, "startDate", TokyoMidnight(exhibition.startDate))
                   ELSE base
  IN IF Truthy(exhibition.endDate)
     THEN Put(withStart, "endDate", TokyoMidnight(exhibition.endDate))
     ELSE withStart

\* The fields the batch version's update writes (part_004, lines 120-129):
\* an absent incoming date writes nothing.
updateFieldsBatch(exhibition, t) ==
  LET base == [hasDateChanged |-> TRUE, updatedAt |-> Timestamp(t)]
      withStart == IF Truthy(exhibition.startDate)
                   THEN Put(base, "startDate", TokyoMidnight(exhibition.startDate))
                   ELSE base
  IN IF Truthy(exhibition.endDate)
     THEN Put(withStart, "endDate", TokyoMidnight(exhibition.endDate))
     ELSE withStart

\* The document the legacy version creates (exhibition.service.ts, lines
\* 110-131): an absent date is stored as ''.
newExhibitionLegacy(exhibition, museumId, canonicalVenueName, origin, t1, t2) ==
  [ title |-> exhibition.title,
    venue |-> canonicalVenueName,
    museumId |-> museumId,
    startDate |-> IF Truthy(exhibition.startDate)
                  THEN TokyoMidnight(exhibition.startDate) ELSE EmptyString,
    endDate |-> IF Truthy(exhibition.endDate)
                THEN TokyoMidnight(exhibition.endDate) ELSE EmptyString,
    status |-> "pending",
    origin |-> origin,
    isExcluded |-> FALSE,
    hasDateChanged |-> FALSE,
    createdAt |-> Timestamp(t1),
    updatedAt |-> Timestamp(t2),
    officialUrl |-> IF origin = "scrape" /\ Truthy(exhibition.officialUrl)
                    THEN exhibition.officialUrl ELSE Undefined ]

\* The document the route handlers create where they do the reconciliation
\* inline (part_001, lines 193-210 for POST /scrape and 379-397 for POST
\* /scrape-feed): the first copies officialUrl as it came, the second has
\* no such field.
newExhibitionInline(exhibition, museumId, canonicalVenueName, origin, t1, t2) ==
  [ title |-> exhibition.title,
    venue |-> canonicalVenueName,
    museumId |-> museumId,
    startDate |-> IF Truthy(exhibition.startDate)
                  THEN TokyoMidnight(exhibition.startDate) ELSE EmptyString,
    endDate |-> IF Truthy(exhibition.endDate)
                THEN TokyoMidnight(exhibition.endDate) ELSE EmptyString,
    status |-> "pending",
    origin |-> origin,
    isExcluded |-> FALSE,
    hasDateChanged |-> FALSE,
    createdAt |-> Timestamp(t1),
    updatedAt |-> Timestamp(t2),
    officialUrl |-> IF origin = "scrape" THEN exhibition.officialUrl ELSE Undefined ]

\* The fields the legacy version's update writes (lines 90-99).
updateFieldsLegacy(exhibition, t) ==
  [ startDate |-> IF Truthy(exhibition.startDate)
                  THEN TokyoMidnight(exhibition.startDate) ELSE EmptyString,
    endDate |-> IF Truthy(exhibition.endDate)
                THEN TokyoMidnight(exhibition.endDate) ELSE EmptyString,
    hasDateChanged |-> TRUE,
    updatedAt |-> Timestamp(t) ]

NoWrite == [op |-> "none", id |-> <<"", 0>>, doc |-> Undefined]
DeleteWrite(id) == [op |-> "delete", id |-> id, doc |-> Undefined]
SetWrite(id, doc) == [op |-> "set", id |-> id, doc |-> doc]
UpdateWrite(id, fields) == [op |-> "update", id |-> id, doc |-> fields]

\* DocumentReference.set / update / delete applied to the collection.  update() of a
\* document that does not exist is rejected by the store: the caller checks
\* CanApply first.
CanApply(store_, w) == w.op = "update" => w.id \in DOMAIN store_

ApplyWrite(store_, w) ==
  IF w.op = "set" THEN Put(store_, w.id, w.doc)
  ELSE IF w.op = "delete" THEN [id \in DOMAIN store_ \ {w.id} |-> store_[id]]
  ELSE IF w.op = "update"
  THEN [store_ EXCEPT ![w.id] =
          [f \in DOMAIN @ |-> IF f \in DOMAIN w.doc THEN w.doc[f] ELSE @[f]]]
  ELSE store_

\* The writes ws[lo..hi] applied in order.
RECURSIVE ApplyRange(_, _, _, _)
ApplyRange(store_, ws, lo, hi) ==
  IF lo > hi THEN store_
  ELSE ApplyRange(ApplyWrite(store_, ws[lo]), ws, lo + 1, hi)

\* The writes of ws applied in order.  Writes to different documents do not
\* interfere, so each document gets the writes addressed to it, in order.
ApplyWrites(store_, ws) ==
  LET ids == DOMAIN store_ \cup {ws[k].id : k \in DOMAIN ws}
      one(id) == LET mine == SelectSeq(ws, LAMBDA w : w.id = id)
                 IN ApplyRange([x \in DOMAIN store_ \cap {id} |-> store_[x]],
                               mine, 1, Len(mine))
  IN [id \in {x \in ids : x \in DOMAIN one(x)} |-> one(id)[id]]

\* ------------------------------------------------- processExhibitionBatch
Inc(results, field) == [results EXCEPT ![field] = @ + 1]

\* The preparation loop (part_004, lines 53-82): an unknown venue and a
\* missing museum ID each count one error; the rest is pushed on
\* exhibitionData, in order, with its document ID.
\* A faulty prepareOne: the `continue` after the error is missing, and the
\* record goes on to the transaction.
prepareOneKeeping(exhibition, maps) ==
  LET canonicalVenueName == normalizeVenue(exhibition.venue, maps)
      museumId == getMuseumId(canonicalVenueName, maps)
  IN [ error |-> FALSE,
       exhibition |-> exhibition,
       documentId |-> getExhibitionDocumentId(museumId, exhibition.title),
       museumId |-> museumId,
       canonicalVenueName |-> canonicalVenueName ]

prepareOne(exhibition, maps) ==
  LET canonicalVenueName == normalizeVenue(exhibition.venue, maps)
      museumId == getMuseumId(canonicalVenueName, maps)
  IN IF canonicalVenueName = NoVenue \/ canonicalVenueName = ""
        \/ museumId = "NotFoundError"
     THEN [ error |-> TRUE, exhibition |-> exhibition ]
     ELSE [ error |-> FALSE,
            exhibition |-> exhibition,
            documentId |-> getExhibitionDocumentId(museumId, exhibition.title),
            museumId |-> museumId,
            canonicalVenueName |-> canonicalVenueName ]

prepareBatch(exhibitions, maps) ==
  LET each == [k \in DOMAIN exhibitions |-> prepareOne(exhibitions[k], maps)]
      kept == SelectSeq(each, LAMBDA e : ~e.error)
  IN [ results |-> [Zero EXCEPT !.errors = Len(exhibitions) - Len(kept)],
       exhibitionData |->
         [k \in DOMAIN kept |->
            [ exhibition |-> kept[k].exhibition,
              documentId |-> kept[k].documentId,
              museumId |-> kept[k].museumId,
              canonicalVenueName |-> kept[k].canonicalVenueName ]] ]

\* A faulty decideBatch: a duplicate is deleted instead of skipped.
decideBatchDeleting(d, existingDoc, origin, t1, t2) ==
  IF existingDoc.exists
  THEN [action |-> "skipped", write |-> DeleteWrite(d.documentId)]
  ELSE [action |-> "created",
        write |-> SetWrite(d.documentId,
                    newExhibitionBatch(d.exhibition, d.museumId, d.canonicalVenueName,
                                       origin, t1, t2))]

\* A faulty write phase: a document without data is thrown as an Error
\* out of the callback instead of being counted.
decideBatchThrowing(d, existingDoc, origin, t1, t2) ==
  IF existingDoc.exists
  THEN
    IF existingDoc.data = Undefined
    THEN [action |-> "throw", write |-> NoWrite]
    ELSE
      LET startEq == areDatesEqual(existingDoc.data.startDate, d.exhibition.startDate)
          endEq == IF startEq = "TypeError" THEN "TypeError"
                   ELSE areDatesEqual(existingDoc.data.endDate, d.exhibition.endDate)
      IN IF startEq = "TypeError" \/ endEq = "TypeError"
         THEN [action |-> "throw", write |-> NoWrite]
         ELSE IF startEq = "true" /\ endEq = "true"
         THEN [action |-> "skipped", write |-> NoWrite]
         ELSE [action |-> "updated",
               write |-> UpdateWrite(d.documentId, updateFieldsBatch(d.exhibition, t1))]
  ELSE [action |-> "created",
        write |-> SetWrite(d.documentId,
                    newExhibitionBatch(d.exhibition, d.museumId, d.canonicalVenueName,
                                       origin, t1, t2))]

\* A faulty write phase: a record whose dates are unchanged still has its
\* document's updatedAt refreshed.
decideBatchTouching(d, existingDoc, origin, t1, t2) ==
  IF existingDoc.exists
  THEN
    IF existingDoc.data = Undefined
    THEN [action |-> "error", write |-> NoWrite]
    ELSE
      LET startEq == areDatesEqual(existingDoc.data.startDate, d.exhibition.startDate)
          endEq == IF startEq = "TypeError" THEN "TypeError"
                   ELSE areDatesEqual(existingDoc.data.endDate, d.exhibition.endDate)
      IN IF startEq = "TypeError" \/ endEq = "TypeError"
         THEN [action |-> "throw", write |-> NoWrite]
         ELSE IF startEq = "true" /\ endEq = "true"
         THEN [action |-> "skipped",
               write |-> UpdateWrite(d.documentId, [updatedAt |-> Timestamp(t1)])]
         ELSE [action |-> "updated",
               write |-> UpdateWrite(d.documentId, updateFieldsBatch(d.exhibition, t1))]
  ELSE [action |-> "created",
        write |-> SetWrite(d.documentId,
                    newExhibitionBatch(d.exhibition, d.museumId, d.canonicalVenueName,
                                       origin, t1, t2))]

\* One record of the write phase (part_004, lines 98-159): what is decided
\* for it given the snapshot read for it.  "throw" is an exception leaving
\* the transaction callback.
decideBatch(d, existingDoc, origin, t1, t2) ==
  IF existingDoc.exists
  THEN
    IF existingDoc.data = Undefined
    THEN [action |-> "error", write |-> NoWrite]
    ELSE
      LET startEq == areDatesEqual(existingDoc.data.startDate, d.exhibition.startDate)
          endEq == IF startEq = "TypeError" THEN "TypeError"
                   ELSE areDatesEqual(existingDoc.data.endDate, d.exhibition.endDate)
      IN IF startEq = "TypeError" \/ endEq = "TypeError"
         THEN [action |-> "throw", write |-> NoWrite]
         ELSE IF startEq = "true" /\ endEq = "true"
         THEN [action |-> "skipped", write |-> NoWrite]
         ELSE [action |-> "updated",
               write |-> UpdateWrite(d.documentId, updateFieldsBatch(d.exhibition, t1))]
  ELSE [action |-> "created",
        write |-> SetWrite(d.documentId,
                    newExhibitionBatch(d.exhibition, d.museumId, d.canonicalVenueName,
                                       origin, t1, t2))]

Count(action) ==
  IF action = "error" THEN "errors" ELSE action

\* What iteration i of the write phase keeps of its record and decision.
decisionEntry(d, existingDoc, dec) ==
  [ exhibition |-> d.exhibition,
    documentId |-> d.documentId,
    prior |-> existingDoc,
    action |-> dec.action,
    write |-> dec.write ]

\* The iterations `done` that ran to their end: the counters of the
\* enclosing results object they incremented and the writes they handed to
\* the transaction.
writeEffects(done, results) ==
  [ results |->
      [ f \in DOMAIN results |->
          results[f] + Cardinality({i \in DOMAIN done : Count(done[i].action) = f}) ],
    writes |->
      LET written == SelectSeq(done, LAMBDA e : e.write.op # "none")
      IN [k \in DOMAIN written |-> written[k].write] ]

\* The iterations up to the first of `throwing`, which none follows.
writeUntil(each, throwing, results) ==
  IF throwing = {}
  THEN [ effects |-> writeEffects(each, results), decisions |-> each, threw |-> FALSE ]
  ELSE LET first == CHOOSE i \in throwing : \A j \in throwing : i <= j
       IN [ effects |-> writeEffects(SubSeq(each, 1, first - 1), results),
            decisions |-> SubSeq(each, 1, first), threw |-> TRUE ]

writeLoop(each, results) ==
  writeUntil(each, {i \in DOMAIN each : each[i].action = "throw"}, results)

\* The write phase of the transaction callback (part_004, lines 97-160).
writePhase(exhibitionData, existingDocs, origin, t1, t2, results) ==
  writeLoop([i \in DOMAIN exhibitionData |->
               decisionEntry(exhibitionData[i], existingDocs[i],
                             decideBatch(exhibitionData[i], existingDocs[i],
                                         origin, t1, t2))],
            results)

\* A faulty catch block: the counters of the failed attempt are kept.
transactionFailedKeeping(results, exhibitionData) ==
  [results EXCEPT !.errors = @ + Len(exhibitionData)]

\* The catch block (part_004, lines 162-169).
transactionFailed(results, exhibitionData) ==
  [ created |-> 0, updated |-> 0, skipped |-> 0,
    errors |-> results.errors + Len(exhibitionData) ]

\* A faulty aggregation: = in place of +=.
addResultsOverwriting(total, batchResults) == batchResults

\* totalResults += batchResults (part_004, lines 202-205).
addResults(total, batchResults) ==
  [ created |-> total.created + batchResults.created,
    updated |-> total.updated + batchResults.updated,
    skipped |-> total.skipped + batchResults.skipped,
    errors |-> total.errors + batchResults.errors ]

\* ------------------------------------------------------------------ inputs
\* Scraped exhibitions of a freely drawn input.
Records ==
  [ title : {1}, venue : {"M"}, startDate : {Null, Str(1)},
    endDate : {Null}, officialUrl : {Null} ]
  \cup
  { [title |-> 1, venue |-> "X", startDate |-> Str(1), endDate |-> Null,
     officialUrl |-> Null],
    [title |-> 1, venue |-> "A", startDate |-> Str(1), endDate |-> Str(1),
     officialUrl |-> Str(9)],
    [title |-> 2, venue |-> "M", startDate |-> Str(1), endDate |-> Null,
     officialUrl |-> Null] }

\* Record k (from 1) of a generated input: distinct titles, the venue by its
\* canonical name or its alias.  "mixed" adds unknown venues, titles that
\* come back in the next group, and dates that differ from record to record.
RecordAt(gen, k) ==
  IF gen = "distinct"
  THEN [ title |-> k, venue |-> IF k % 2 = 0 THEN "M" ELSE "A",
         startDate |-> Str(1), endDate |-> IF k % 3 = 0 THEN Null ELSE Str(2),
         officialUrl |-> IF k % 5 = 0 THEN Str(9) ELSE Null ]
  ELSE [ title |-> ((k - 1) % (BATCH_SIZE + 20)) + 1,
         venue |-> IF k % 7 = 0 THEN "X" ELSE IF k % 2 = 0 THEN "M" ELSE "A",
         startDate |-> Str(1 + (k % 2)), endDate |-> IF k % 3 = 0 THEN Null ELSE Str(2),
         officialUrl |-> IF k % 5 = 0 THEN Str(9) ELSE Null ]

Gens == {"distinct", "mixed"}

Min(a, b) == IF a < b THEN a ELSE b

\* A faulty slice: exhibitions.slice(0, size), the first group again.
InputSliceFromStart(run, size, left) ==
  IF run.gen = "any"
  THEN UNION {[1..len -> Records] : len \in 1..Min(size, left)}
  ELSE {[k \in 1..(Min(run.i + size, run.n) - run.i) |-> RecordAt(run.gen, k)]}

\* A faulty slice: exhibitions.slice(i), everything that is left.
InputSliceWhole(run, size, left) ==
  IF run.gen = "any"
  THEN UNION {[1..len -> Records] : len \in 1..left}
  ELSE {[k \in 1..(run.n - run.i) |-> RecordAt(run.gen, run.i + k)]}

\* exhibitions.slice(i, i + size) of a run's input.  A generated input has
\* its n records; of a freely drawn input only the records read so far are
\* fixed, and the slice is any of at most size records, `left` being the
\* records the freely drawn inputs may still hold.
InputSlice(run, size, left) ==
  IF run.gen = "any"
  THEN UNION {[1..len -> Records] : len \in 1..Min(size, left)}
  ELSE {[k \in 1..(Min(run.i + size, run.n) - run.i) |-> RecordAt(run.gen, run.i + k)]}

\* i < exhibitions.length can hold / can fail.
MayHaveMore(run) ==
  IF run.gen = "any" THEN ~run.ended ELSE run.i < run.n
MayEnd(run) ==
  IF run.gen = "any" THEN TRUE ELSE run.i >= run.n

\* ------------------------------------------------------------------- state
VARIABLES
  store,      \* the exhibition collection: document ID -> document
  clock,      \* the last instant Timestamp.now() returned
  runs,       \* the invocations of processScrapeResults, by slot
  createdBy,  \* history: <<document ID, slot>> for each 'created' a run kept
  call        \* a function of the program applied on its own: inputs and result

vars == <<store, clock, runs, createdBy, call>>

NoCall == [fn |-> "none"]

EmptyStore == [id \in {} |-> Undefined]

IdleRun ==
  [ pc |-> "idle", variant |-> "none", origin |-> "scrape", gen |-> "any",
    n |-> 0, i |-> 0, ended |-> FALSE, total |-> Zero, results |-> Zero,
    exhibitionData |-> <<>>, existingDocs |-> <<>>, writes |-> <<>>,
    decisions |-> <<>>, attempt |-> 0, stale |-> FALSE,
    existingExhibitionsMap |-> EmptyStore,
    consumed |-> 0, unknown |-> 0, batchLen |-> 0, batchUnknown |-> 0,
    txCalls |-> 0, txGroups |-> 0, group |-> "none", handed |-> 0,
    faults |-> FALSE, after |-> {}, pre |-> "empty" ]

Init ==
  /\ store = EmptyStore
  /\ clock = 0
  /\ runs = [r \in Slots |-> IdleRun]
  /\ createdBy = {}
  /\ call = NoCall

\* The instants the next Timestamp.now() can return.
Nows(from) == {t \in {from, from + 1} : t <= MaxClock}

ReadIds(run) == {run.exhibitionData[k].documentId : k \in DOMAIN run.exhibitionData}
WriteIds(ws) == {ws[k].id : k \in DOMAIN ws}

\* A committed write of `ids` makes stale the reads of every other open
\* transaction that read one of them.
Invalidate(rs, r, ids) ==
  [q \in Slots |->
     IF q # r /\ rs[q].pc = "commit" /\ ReadIds(rs[q]) \cap ids # {}
     THEN [rs[q] EXCEPT !.stale = TRUE] ELSE rs[q]]

Created(decisions) ==
  {decisions[k].documentId : k \in {j \in DOMAIN decisions : decisions[j].action = "created"}}

\* The records the freely drawn inputs may still hold.
Left == MaxRecords - (runs[1].consumed + runs[2].consumed)

UnknownVenues(batch) ==
  Cardinality({k \in DOMAIN batch : batch[k].venue \notin DOMAIN museumMaps.aliasToName})

\* The runs that have returned.
Returned == {q \in Slots : runs[q].pc = "returned"}

\* A call of processScrapeResults arrives (routes/exhibition.ts) in a free
\* slot; slot 2 is used after slot 1, and runs the same implementation.
Arrives(r, variant) ==
  /\ runs[r].pc = "idle"
  /\ r = 1 \/ runs[1].variant = variant

\* A faulty loop: a group whose transaction failed is counted and then
\* processed again.
EndGroupRetrying(run, batchResults, outcome) ==
  LET next == [run EXCEPT !.i = IF outcome = "failed" THEN @ ELSE @ + BATCH_SIZE,
                          !.ended = (run.gen = "any" /\ outcome # "failed")]
  IN [next EXCEPT !.pc = IF MayHaveMore(next) THEN "loop" ELSE "returned",
                  !.results = Zero,
                  !.total = addResults(@, batchResults),
                  !.exhibitionData = <<>>, !.existingDocs = <<>>,
                  !.writes = <<>>, !.decisions = <<>>,
                  !.attempt = 0, !.stale = FALSE,
                  !.group = outcome,
                  !.handed = Len(run.writes),
                  !.faults = (@ \/ outcome = "failed")]

\* processExhibitionBatch returns batchResults: the group's scratch state is
\* dropped, processScrapeResults adds the counts to its totals and goes to
\* the next group, or returns the totals after the last one.  `handed`
\* keeps the number of writes the group's transaction held at its end.
EndGroup(run, batchResults, outcome) ==
  LET next == [run EXCEPT !.i = @ + BATCH_SIZE, !.ended = (run.gen = "any")]
  IN [next EXCEPT !.pc = IF MayHaveMore(next) THEN "loop" ELSE "returned",
                  !.results = Zero,
                  !.total = addResults(@, batchResults),
                  !.exhibitionData = <<>>, !.existingDocs = <<>>,
                  !.writes = <<>>, !.decisions = <<>>,
                  !.attempt = 0, !.stale = FALSE,
                  !.group = outcome,
                  !.handed = Len(run.writes),
                  !.faults = (@ \/ outcome = "failed")]

\* A faulty callback: docRef.set / docRef.update in place of the
\* transaction's, so each write reaches the collection at once.
storeAfterCallbackDirect(store_, writes) == ApplyWrites(store_, writes)

\* ------------------------------------------- processScrapeResults (batch)
\* transaction.set / transaction.update only record the write in the
\* transaction: the collection is as it was when the callback returns.
storeAfterCallback(store_, writes) == store_

\* The callback of runTransaction has run: an exception (or a rejected read)
\* rejects runTransaction, which the catch block handles; else the
\* transaction is ready to commit.
CallbackDone(r, run, readOk, existingDocs, wp, t2) ==
  /\ store' = storeAfterCallback(store, IF readOk THEN wp.effects.writes ELSE <<>>)
  /\ clock' = IF readOk /\ wp.effects.writes # <<>> THEN t2 ELSE clock
  /\ runs' = [runs EXCEPT ![r] =
       IF ~readOk
       THEN EndGroup([run EXCEPT !.writes = <<>>],
                     transactionFailed(run.results, run.exhibitionData), "failed")
       ELSE IF wp.threw
       THEN EndGroup([run EXCEPT !.writes = wp.effects.writes],
                     transactionFailed(wp.effects.results, run.exhibitionData),
                     "failed")
       ELSE [run EXCEPT !.pc = "commit", !.results = wp.effects.results,
                        !.existingDocs = existingDocs,
                        !.decisions = wp.decisions, !.writes = wp.effects.writes,
                        !.stale = FALSE]]

CallbackRead(r, run, readOk, existingDocs, t1, t2) ==
  CallbackDone(r, run, readOk, existingDocs,
               writePhase(run.exhibitionData, existingDocs, run.origin, t1, t2,
                          run.results),
               t2)

\* What a read of record k returns when it is issued after the writes of
\* the records before it: the document an earlier record of the group has
\* just created under the same ID.
SnapshotAfterWrites(store_, data, k, origin, t1, t2) ==
  LET earlier == {j \in 1..(k - 1) : data[j].documentId = data[k].documentId}
      first == CHOOSE j \in earlier : \A i \in earlier : j <= i
  IN IF earlier # {} /\ data[k].documentId \notin DOMAIN store_
     THEN [ exists |-> TRUE,
            data |-> newExhibitionBatch(data[first].exhibition, data[first].museumId,
                                        data[first].canonicalVenueName, origin, t1, t2) ]
     ELSE Snapshot(store_, data[k].documentId)

\* A faulty callback: each record is read when its turn comes in the
\* loop, after the writes of the records before it.
CallbackInterleaved(r, run, readOk, t1, t2) ==
  CallbackRead(r, run, readOk,
               [k \in DOMAIN run.exhibitionData |->
                  SnapshotAfterWrites(store, run.exhibitionData, k, run.origin, t1, t2)],
               t1, t2)

\* One invocation of the transaction callback by runTransaction: the read
\* phase takes the snapshots, the write phase decides every record.
Callback(r, run, readOk, t1, t2) ==
  CallbackRead(r, run, readOk,
               [k \in DOMAIN run.exhibitionData |->
                  Snapshot(store, run.exhibitionData[k].documentId)],
               t1, t2)

\* processExhibitionBatch on the next group, exhibitions.slice(i, i +
\* BATCH_SIZE): the group is prepared; with nothing left to write it returns
\* at once, else it calls db.runTransaction, which invokes the callback.
BatchPrepared(r, run, prep, readOk, t1, t2) ==
  IF prep.exhibitionData = <<>>
  THEN /\ runs' = [runs EXCEPT ![r] = EndGroup(run, prep.results, "empty")]
       /\ UNCHANGED <<store, clock>>
  ELSE Callback(r, [run EXCEPT !.results = prep.results,
                               !.exhibitionData = prep.exhibitionData,
                               !.txCalls = @ + 1],
                readOk, t1, t2)

BatchGroup(r) ==
  /\ \/ Arrives(r, "batch")
     \/ runs[r].pc = "loop" /\ runs[r].variant = "batch" /\ MayHaveMore(runs[r])
  /\ \E batch \in InputSlice(runs[r], BATCH_SIZE, Left) :
     \E readOk \in BOOLEAN : \E t1 \in Nows(clock) : \E t2 \in Nows(t1) :
       BatchPrepared(r,
                     [runs[r] EXCEPT !.variant = "batch", !.origin = OriginOf(r),
                                     !.consumed = @ + Len(batch),
                                     !.unknown = @ + UnknownVenues(batch),
                                     !.batchLen = Len(batch),
                                     !.batchUnknown = UnknownVenues(batch),
                                     !.txGroups = @ + IF UnknownVenues(batch) < Len(batch)
                                                      THEN 1 ELSE 0,
                                     !.after = IF runs[r].pc = "idle"
                                               THEN Returned ELSE @],
                     prepareBatch(batch, museumMaps), readOk, t1, t2)
  /\ UNCHANGED <<createdBy, call>>

\* The store commits the transaction: its reads are still current, and all
\* its writes are applied together.  processScrapeResults adds the group's
\* counts to the totals.
TxCommit(r) ==
  LET run == runs[r]
      after == ApplyWrites(store, run.writes)
  IN
  /\ run.pc = "commit" /\ ~run.stale
  /\ store' = after
  /\ createdBy' = createdBy \cup {<<id, r>> : id \in Created(run.decisions)}
  /\ runs' = Invalidate(
       [runs EXCEPT ![r] =
          EndGroup(run, run.results, "committed")],
       r, WriteIds(run.writes))
  /\ UNCHANGED <<clock, call>>

\* The store aborts the attempt (its reads went stale, or contention) and
\* runTransaction invokes the callback again.
TxRetry(r) ==
  LET run == runs[r] IN
  /\ run.pc = "commit" /\ run.attempt < MaxAttempts
  /\ \E readOk \in BOOLEAN : \E t1 \in Nows(clock) : \E t2 \in Nows(t1) :
       Callback(r, [run EXCEPT !.attempt = @ + 1, !.faults = TRUE], readOk, t1, t2)
  /\ UNCHANGED <<createdBy, call>>

\* runTransaction rejects (a failed commit, retries exhausted): the catch
\* block counts the whole group as errors.
TxFail(r) ==
  LET run == runs[r] IN
  /\ run.pc = "commit"
  /\ runs' = [runs EXCEPT ![r] =
                EndGroup(run, transactionFailed(run.results, run.exhibitionData),
                         "failed")]
  /\ UNCHANGED <<store, clock, createdBy, call>>

\* The loop is over: processScrapeResults returns the totals.
Return(r) ==
  /\ runs[r].pc = "loop" /\ MayEnd(runs[r])
  /\ runs' = [runs EXCEPT ![r].pc = "returned"]
  /\ UNCHANGED <<store, clock, createdBy, call>>

\* ------------------------------------------ processScrapeResults (legacy)
\* fetchExistingExhibitions (exhibition.service.ts, lines 13-28): the dates
\* of every document of the collection, read once per run.
fetchExistingExhibitions(store_) ==
  [id \in DOMAIN store_ |->
     [startDate |-> store_[id].startDate, endDate |-> store_[id].endDate]]

LegacyFetch(r) ==
  /\ Arrives(r, "legacy")
  /\ runs' = [runs EXCEPT ![r] =
                  [IdleRun EXCEPT !.pc = "loop", !.variant = "legacy",
                                  !.origin = OriginOf(r), !.after = Returned,
                                  !.existingExhibitionsMap =
                                     fetchExistingExhibitions(store)]]
  /\ UNCHANGED <<store, clock, createdBy, call>>

\* The collection read fails: the call is outside every try block, so
\* processScrapeResults rejects.
LegacyFetchFail(r) ==
  /\ Arrives(r, "legacy")
  /\ runs' = [runs EXCEPT ![r] = [IdleRun EXCEPT !.pc = "threw", !.variant = "legacy"]]
  /\ UNCHANGED <<store, clock, createdBy, call>>

\* processExhibition (exhibition.service.ts, lines 56-140) up to its write:
\* what is decided for one record given the map read at the start.
processExhibition(exhibition, maps, existingExhibitionsMap, origin, t1, t2) ==
  LET canonicalVenueName == normalizeVenue(exhibition.venue, maps)
      museumId == getMuseumId(canonicalVenueName, maps)
      documentId == getExhibitionDocumentId(museumId, exhibition.title)
  IN IF canonicalVenueName = NoVenue \/ canonicalVenueName = ""
        \/ museumId = "NotFoundError"
     THEN [action |-> "error", documentId |-> documentId, write |-> NoWrite]
     ELSE IF documentId \in DOMAIN existingExhibitionsMap
     THEN
       LET existingExhibition == existingExhibitionsMap[documentId]
           startEq == areDatesEqual(existingExhibition.startDate, exhibition.startDate)
           endEq == areDatesEqual(existingExhibition.endDate, exhibition.endDate)
       IN IF startEq = "TypeError" \/ endEq = "TypeError"
          THEN [action |-> "error", documentId |-> documentId, write |-> NoWrite]
          ELSE IF startEq = "true" /\ endEq = "true"
          THEN [action |-> "skipped", documentId |-> documentId, write |-> NoWrite]
          ELSE [action |-> "updated", documentId |-> documentId,
                write |-> UpdateWrite(documentId, updateFieldsLegacy(exhibition, t1))]
     ELSE [action |-> "created", documentId |-> documentId,
           write |-> SetWrite(documentId,
                       newExhibitionLegacy(exhibition, museumId, canonicalVenueName,
                                           origin, t1, t2))]

\* One iteration of the loop of processScrapeResults, to the point where
\* processExhibition awaits its update() or set(), or to its end when
\* nothing is written.
LegacyDecided(r, run, exhibition, dec, t1, t2) ==
  /\ clock' = IF dec.write.op = "none" THEN clock
               ELSE IF dec.write.op = "set" THEN t2 ELSE t1
  /\ runs' = [runs EXCEPT ![r] =
       IF dec.write.op = "none"
       THEN [run EXCEPT !.total = Inc(@, Count(dec.action)), !.i = @ + 1]
       ELSE [run EXCEPT !.pc = "write",
                        !.decisions = << [ exhibition |-> exhibition,
                                           documentId |-> dec.documentId,
                                           action |-> dec.action,
                                           write |-> dec.write ] >>,
                        !.writes = <<dec.write>>]]

LegacyProcess(r) ==
  /\ runs[r].pc = "loop" /\ runs[r].variant = "legacy" /\ MayHaveMore(runs[r])
  /\ \E batch \in InputSlice(runs[r], 1, Left) :
     \E t1 \in Nows(clock) : \E t2 \in Nows(t1) :
       LegacyDecided(r,
                     [runs[r] EXCEPT !.consumed = @ + 1,
                                     !.unknown = @ + UnknownVenues(batch),
                                     !.batchLen = 1,
                                     !.batchUnknown = UnknownVenues(batch)],
                     batch[1],
                     processExhibition(batch[1], museumMaps,
                                       runs[r].existingExhibitionsMap,
                                       runs[r].origin, t1, t2),
                     t1, t2)
  /\ UNCHANGED <<store, createdBy, call>>

\* The store applies the awaited write and processExhibition returns its
\* action, which the loop counts.
LegacyWriteDone(r) ==
  LET run == runs[r]
      after == ApplyWrites(store, run.writes)
  IN
  /\ run.pc = "write" /\ CanApply(store, run.writes[1])
  /\ store' = after
  /\ createdBy' = createdBy \cup {<<id, r>> : id \in Created(run.decisions)}
  /\ runs' = Invalidate(
       [runs EXCEPT ![r] =
          [run EXCEPT !.pc = "loop",
                      !.total = Inc(@, Count(run.decisions[1].action)),
                      !.decisions = <<>>, !.writes = <<>>,
                      !.i = @ + 1]],
       r, WriteIds(run.writes))
  /\ UNCHANGED <<clock, call>>

\* The awaited write is rejected: the catch block of the loop counts one
\* error.
LegacyWriteFail(r) ==
  LET run == runs[r] IN
  /\ run.pc = "write"
  /\ runs' = [runs EXCEPT ![r] =
                [run EXCEPT !.pc = "loop", !.total = Inc(@, "errors"),
                            !.decisions = <<>>, !.writes = <<>>, !.i = @ + 1]]
  /\ UNCHANGED <<store, clock, createdBy, call>>

\* ---------------------------------------------------------- specifications
Next ==
  \E r \in Slots :
    \/ BatchGroup(r)
    \/ TxCommit(r)
    \/ TxRetry(r)
    \/ TxFail(r)
    \/ Return(r)
    \/ LegacyFetch(r)
    \/ LegacyFetchFail(r)
    \/ LegacyProcess(r)
    \/ LegacyWriteDone(r)
    \/ LegacyWriteFail(r)

Spec == Init /\ [][Next]_vars

\* -------------------------------------------------- batching, one run alone
\* Documents in the collection before the run: one equal to record 1 of the
\* "mixed" input, one whose start date differs from record 2's, and one
\* that exists but has no data.
PreStore ==
  LET d1 == newExhibitionBatch(RecordAt("mixed", 1), "m1", "M", "scrape-feed", 0, 0)
      d2 == newExhibitionBatch(RecordAt("distinct", 2), "m1", "M", "scrape-feed", 0, 0)
  IN [id \in {<<"m1", 1>>, <<"m1", 2>>, <<"m1", 3>>} |->
        IF id[2] = 1 THEN d1 ELSE IF id[2] = 2 THEN d2 ELSE Undefined]

\* Input lengths around the group boundaries.
Lengths == {0, 1, 7, BATCH_SIZE, BATCH_SIZE + 1, MaxN}

InitBatch ==
  /\ clock = 0
  /\ createdBy = {}
  /\ call = NoCall
  /\ \E pre \in {"empty", "some"}, gen \in Gens, n \in Lengths :
       /\ store = IF pre = "empty" THEN EmptyStore ELSE PreStore
       /\ runs = [r \in Slots |->
                    IF r = 1
                    THEN [IdleRun EXCEPT !.pc = "loop", !.variant = "batch",
                                         !.gen = gen, !.n = n, !.pre = pre]
                    ELSE [IdleRun EXCEPT !.pc = "off"]]

NextBatch ==
  \/ BatchGroup(1)
  \/ TxCommit(1)
  \/ TxRetry(1)
  \/ TxFail(1)
  \/ Return(1)

SpecBatch == InitBatch /\ [][NextBatch]_vars

\* ------------------------------------------------- runs beside a curator
\* ExhibitionDocument (types/exhibition.ts) lets a document be 'active',
\* excluded or of origin 'manual': states no reconciliation writes, which a
\* curator gives a document while runs are under way.
IsCurated(doc) ==
  doc # Undefined
  /\ (doc.status = "active" \/ doc.isExcluded \/ doc.origin = "manual")

Uncurated == \A id \in DOMAIN store : ~IsCurated(store[id])

\* The curator activates or excludes a stored document.  A transaction
\* that has read the document can no longer commit.
Curate ==
  /\ Uncurated
  /\ \E id \in DOMAIN store : \E field \in {"status", "isExcluded"} :
       /\ store[id] # Undefined
       /\ store' = [store EXCEPT ![id] =
                      IF field = "status" THEN [@ EXCEPT !.status = "active"]
                      ELSE [@ EXCEPT !.isExcluded = TRUE]]
       /\ runs' = Invalidate(runs, 0, {id})
  /\ UNCHANGED <<clock, createdBy, call>>

\* The curator enters an exhibition by hand.
ManualAdd ==
  /\ Uncurated
  /\ <<"m1", 1>> \notin DOMAIN store
  /\ store' = Put(store, <<"m1", 1>>,
                  [ title |-> 1, venue |-> "M", museumId |-> "m1",
                    startDate |-> TokyoMidnight(Str(1)), endDate |-> Undefined,
                    status |-> "active", origin |-> "manual",
                    isExcluded |-> FALSE, hasDateChanged |-> FALSE,
                    createdAt |-> Timestamp(clock), updatedAt |-> Timestamp(clock),
                    officialUrl |-> Undefined ])
  /\ runs' = Invalidate(runs, 0, {<<"m1", 1>>})
  /\ UNCHANGED <<clock, createdBy, call>>

\* One run, of either implementation, beside the curator.
NextCurated ==
  \/ BatchGroup(1)
  \/ TxCommit(1)
  \/ TxRetry(1)
  \/ TxFail(1)
  \/ Return(1)
  \/ LegacyFetch(1)
  \/ LegacyFetchFail(1)
  \/ LegacyProcess(1)
  \/ LegacyWriteDone(1)
  \/ LegacyWriteFail(1)
  \/ Curate
  \/ ManualAdd

SpecCurated == Init /\ [][NextCurated]_vars

\* --------------------------------------------- functions on their own
Origins == {"scrape", "scrape-feed"}
Instants == 0..MaxClock

\* Scraped exhibitions as the response schema admits them: a date or URL is
\* a string (the empty one where the page gave none), null or undefined.
CallRecords ==
  [ title : {1}, venue : {"M", "A"}, startDate : {Null, Str(1)},
    endDate : {EmptyString, Str(2)},
    officialUrl : {Null, Undefined, EmptyString, Str(9)} ]

newExhibition(version, exhibition, museumId, canonicalVenueName, origin, t1, t2) ==
  IF version = "batch"
  THEN newExhibitionBatch(exhibition, museumId, canonicalVenueName, origin, t1, t2)
  ELSE IF version = "legacy"
  THEN newExhibitionLegacy(exhibition, museumId, canonicalVenueName, origin, t1, t2)
  ELSE newExhibitionInline(exhibition, museumId, canonicalVenueName, origin, t1, t2)

\* The new document of a record whose identity has no stored document.
CallNewExhibition ==
  /\ call = NoCall
  /\ \E version \in {"batch", "legacy", "inline"} : \E exhibition \in CallRecords :
     \E origin \in Origins : \E t1 \in Instants : \E t2 \in Nows(t1) :
       LET name == normalizeVenue(exhibition.venue, museumMaps) IN
       call' = [ fn |-> "newExhibition", version |-> version,
                 exhibition |-> exhibition, origin |-> origin,
                 result |-> newExhibition(version, exhibition,
                                          getMuseumId(name, museumMaps), name,
                                          origin, t1, t2) ]
  /\ UNCHANGED <<store, clock, runs, createdBy>>

\* What a stored date field can hold: nothing (the batch version leaves an
\* absent date out), '' (the legacy version's absent date), or an instant,
\* at 00:00 in Asia/Tokyo or not.
StoredDates ==
  {Undefined, EmptyString}
    \cup {TokyoMidnight(Str(d)) : d \in 1..MaxDay}
    \cup {Timestamp(d * 86400) : d \in 1..MaxDay}

IncomingDates == {Null, Undefined, EmptyString} \cup {Str(d) : d \in 1..MaxDay}

DateVersions == {"date.ts", "part_005"}

CallAreDatesEqual ==
  /\ call = NoCall
  /\ \E version \in DateVersions : \E existing \in StoredDates :
     \E incoming \in IncomingDates :
       call' = [ fn |-> "areDatesEqual", version |-> version,
                 existing |-> existing, incoming |-> incoming,
                 result |-> IF version = "date.ts"
                            THEN areDatesEqual(existing, incoming)
                            ELSE areDatesEqualStrings(existing, incoming) ]
  /\ UNCHANGED <<store, clock, runs, createdBy>>

\* Registries of the museum collection: venue j has its own canonical name
\* and ID; an alias is any of AliasNames, so two venues can share an alias
\* and an alias can be the first venue's canonical name.
NameOf(j) == IF j = 1 THEN "M" ELSE IF j = 2 THEN "N" ELSE "O"
IdOf(j) == IF j = 1 THEN "m1" ELSE IF j = 2 THEN "m2" ELSE "m3"
AliasNames == {"A", "B", "M"}
AliasLists == UNION {[1..n -> AliasNames] : n \in 0..MaxAliases}
RegistryOf(n, al) ==
  [j \in 1..n |-> [id |-> IdOf(j), name |-> NameOf(j), aliases |-> al[j]]]

MapsVersions == {"museum.service.ts", "part_003"}

CallBuildMuseumMaps ==
  /\ call = NoCall
  /\ \E version \in MapsVersions : \E n \in 0..MaxMuseums :
     \E al \in [1..n -> AliasLists] :
       call' = [ fn |-> "buildMuseumMaps", version |-> version,
                 museums |-> RegistryOf(n, al),
                 result |-> IF version = "museum.service.ts"
                            THEN buildMuseumMaps(RegistryOf(n, al))
                            ELSE buildMuseumMapsWithAliasIds(RegistryOf(n, al)) ]
  /\ UNCHANGED <<store, clock, runs, createdBy>>

\* The museum collection: documents in document-ID order, each with the
\* fields of MuseumDocument the function reads.
ScrapeUrls == {"u1", "u2"}
MuseumDocs(n, urls, enabled) ==
  [j \in 1..n |-> [id |-> IdOf(j),
                   data |-> [name |-> NameOf(j), scrapeUrl |-> urls[j],
                             scrapeEnabled |-> enabled[j]]]]

\* db.collection('museum').where('scrapeEnabled', '==', value).get()
whereScrapeEnabled(collection, value) ==
  SelectSeq(collection, LAMBDA doc : doc.data.scrapeEnabled = value)

\* fetchEnabledMuseumsWithUrls in its two versions: museum.service.ts
\* queries scrapeEnabled == true, part_003 queries scrapeEnabled == false.
fetchEnabledMuseumsWithUrls(version, collection) ==
  LET docs == whereScrapeEnabled(collection, version = "museum.service.ts")
  IN [ museums |-> [j \in 1..Len(docs) |->
                      [id |-> docs[j].id, name |-> docs[j].data.name,
                       scrapeUrl |-> docs[j].data.scrapeUrl,
                       scrapeEnabled |-> docs[j].data.scrapeEnabled]],
       startUrls |-> [j \in 1..Len(docs) |->
                        [url |-> docs[j].data.scrapeUrl, method |-> "GET"]] ]

CallFetchEnabledMuseums ==
  /\ call = NoCall
  /\ \E version \in MapsVersions : \E n \in 0..MaxMuseums :
     \E urls \in [1..n -> ScrapeUrls] : \E enabled \in [1..n -> BOOLEAN] :
       call' = [ fn |-> "fetchEnabledMuseumsWithUrls", version |-> version,
                 collection |-> MuseumDocs(n, urls, enabled),
                 result |-> fetchEnabledMuseumsWithUrls(
                              version, MuseumDocs(n, urls, enabled)) ]
  /\ UNCHANGED <<store, clock, runs, createdBy>>

\* What the Apify client can answer: a promise resolves with a value or
\* rejects with an Error or with a value that is not an Error.
Resolved(value) == [settled |-> "resolved", value |-> value]
Rejected(reason) == [settled |-> "rejected", reason |-> reason]
Failures ==
  { [isError |-> TRUE, message |-> "timeout"],
    [isError |-> TRUE, message |-> "quota"],
    [isError |-> FALSE, message |-> "text"] }
DatasetItems == {<<>>, <<"e1">>, <<"e1", "e2">>, <<"e2", "e1">>}
ActorOutcomes ==
  {Resolved([defaultDatasetId |-> "dataset-1"])} \cup {Rejected(f) : f \in Failures}
DatasetOutcomes ==
  {Resolved([items |-> items]) : items \in DatasetItems}
    \cup {Rejected(f) : f \in Failures}

ExternalServiceError(message, service) ==
  [ name |-> "ExternalServiceError", message |-> message, service |-> service,
    statusCode |-> 502, code |-> "EXTERNAL_SERVICE_ERROR" ]

\* A faulty wrapper: only an Error is wrapped, anything else is rethrown.
runActorAndGetResultsRethrowing(actorCall, listItems) ==
  LET failure == IF actorCall.settled = "rejected" THEN actorCall.reason
                 ELSE listItems.reason
  IN IF actorCall.settled = "resolved" /\ listItems.settled = "resolved"
     THEN [kind |-> "return", value |-> listItems.value.items]
     ELSE IF failure.isError
     THEN [kind |-> "throw",
           error |-> ExternalServiceError(
                       <<"Failed to run Apify actor: ", failure.message>>, "Apify")]
     ELSE [kind |-> "throw", error |-> failure]

\* runActorAndGetResults (apify.service.ts, lines 7-25): the actor call,
\* then the dataset fetch, and a catch around both.
runActorAndGetResults(actorCall, listItems) ==
  LET failure == IF actorCall.settled = "rejected" THEN actorCall.reason
                 ELSE listItems.reason
      message == IF failure.isError THEN failure.message ELSE "Unknown error"
  IN IF actorCall.settled = "resolved" /\ listItems.settled = "resolved"
     THEN [kind |-> "return", value |-> listItems.value.items]
     ELSE [kind |-> "throw",
           error |-> ExternalServiceError(
                       <<"Failed to run Apify actor: ", message>>, "Apify")]

\* The dataset is fetched only after the actor call resolved.
CallRunActor ==
  /\ call = NoCall
  /\ \E actorCall \in ActorOutcomes : \E listItems \in DatasetOutcomes :
       call' = [ fn |-> "runActorAndGetResults",
                 actorCall |-> actorCall,
                 listItems |-> IF actorCall.settled = "resolved"
                               THEN listItems ELSE [settled |-> "not called"],
                 result |-> runActorAndGetResults(actorCall, listItems) ]
  /\ UNCHANGED <<store, clock, runs, createdBy>>

\* One record reconciled by a run of its own against a collection: what is
\* decided, and the collection after the run (an update or set that was
\* decided is applied; nothing else changes).
reconcile(version, store_, exhibition, origin, t1, t2) ==
  LET d == prepareBatch(<<exhibition>>, museumMaps).exhibitionData[1]
      dec == IF version = "batch"
             THEN decideBatch(d, Snapshot(store_, d.documentId), origin, t1, t2)
             ELSE processExhibition(exhibition, museumMaps,
                                    fetchExistingExhibitions(store_), origin, t1, t2)
  IN [ action |-> dec.action,
       store |-> IF dec.action \in {"created", "updated"}
                 THEN ApplyWrite(store_, dec.write) ELSE store_ ]

\* Records of one identity with each date given, null or ''.
DateRecords ==
  [ title : {1}, venue : {"M"}, startDate : {Null, Str(1), Str(2)},
    endDate : {Null, EmptyString, Str(2)}, officialUrl : {Null} ]

\* Three runs one after the other on an empty collection: the first
\* reconciles `stored`, the second and the third reconcile `exhibition`.
CallReconcileAgain ==
  /\ call = NoCall
  /\ \E version \in {"batch", "legacy"} :
     \E stored \in DateRecords : \E exhibition \in DateRecords :
       LET first == reconcile(version, EmptyStore, stored, "scrape", 0, 0)
           second == reconcile(version, first.store, exhibition, "scrape", 1, 1)
           third == reconcile(version, second.store, exhibition, "scrape", 1, 1)
       IN call' = [ fn |-> "reconcileAgain", version |-> version,
                    stored |-> stored, exhibition |-> exhibition,
                    actions |-> <<first.action, second.action, third.action>>,
                    store |-> third.store ]
  /\ UNCHANGED <<store, clock, runs, createdBy>>

\* Venue maps as a caller of processScrapeResults can pass them: the maps
\* built from the registry, and maps in which the name "Q" resolves to
\* itself and has no ID.
CallMaps ==
  { museumMaps,
    [ aliasToName |-> Put(museumMaps.aliasToName, "Q", "Q"),
      nameToId |-> museumMaps.nameToId ] }

CallVenues == {"M", "A", "Q", "X"}

GroupRecord(venue) ==
  [ title |-> 1, venue |-> venue, startDate |-> Str(1), endDate |-> Null,
    officialUrl |-> Null ]

\* The preparation of one group by processExhibitionBatch, and what the
\* legacy processExhibition decides for each of its records on an empty
\* collection.
CallPrepareBatch ==
  /\ call = NoCall
  /\ \E maps \in CallMaps : \E n \in 1..MaxGroup : \E venues \in [1..n -> CallVenues] :
       LET exhibitions == [k \in 1..n |-> GroupRecord(venues[k])] IN
       call' = [ fn |-> "prepareBatch", maps |-> maps, exhibitions |-> exhibitions,
                 result |-> prepareBatch(exhibitions, maps),
                 legacy |-> [k \in 1..n |->
                               processExhibition(exhibitions[k], maps, EmptyStore,
                                                 "scrape", 0, 0).action] ]
  /\ UNCHANGED <<store, clock, runs, createdBy>>

\* Titles and venues as sequences of characters; a venue of one character
\* is the name of that character in the venue maps.
RawTitles == {<<"t">>, <<"t", " ">>, <<"u">>}
RawVenues == {<<"M">>, <<"A">>, <<"M", " ">>, <<"X">>}
AsName(text) == IF Len(text) = 1 THEN text[1] ELSE "other"

IdentityVersions == {"hash.ts", "exhibition.ts"}

\* The document ID a record is stored under: by museum ID and title
\* (part_004, lines 55-64), or by getDocumentHash; "none" for a record that
\* is dropped as an error.
identityOf(version, title, venue) ==
  IF version = "exhibition.ts" THEN getDocumentHash(title, venue)
  ELSE LET prepared == prepareOne([title |-> title, venue |-> AsName(venue)], museumMaps)
       IN IF prepared.error THEN "none" ELSE prepared.documentId

\* The document IDs of two records of one or two runs.
CallIdentity ==
  /\ call = NoCall
  /\ \E version \in IdentityVersions :
     \E title1 \in RawTitles, title2 \in RawTitles :
     \E venue1 \in RawVenues, venue2 \in RawVenues :
       call' = [ fn |-> "identity", version |-> version,
                 titles |-> <<title1, title2>>, venues |-> <<venue1, venue2>>,
                 result |-> << identityOf(version, title1, venue1),
                               identityOf(version, title2, venue2) >> ]
  /\ UNCHANGED <<store, clock, runs, createdBy>>

NextCalls ==
  \/ CallNewExhibition
  \/ CallIdentity
  \/ CallPrepareBatch
  \/ CallAreDatesEqual
  \/ CallBuildMuseumMaps
  \/ CallFetchEnabledMuseums
  \/ CallRunActor
  \/ CallReconcileAgain

SpecCalls == Init /\ [][NextCalls]_vars

\* ------------------------------------------ a run that started long ago
\* The collection after earlier runs, now over, created a document and then
\* updated its dates.
UpdatedStore ==
  LET stored == [title |-> 1, venue |-> "M", startDate |-> Str(1),
                 endDate |-> Null, officialUrl |-> Null]
      moved == [stored EXCEPT !.startDate = Str(2)]
  IN {reconcile(version,
                reconcile(version, EmptyStore, stored, "scrape", 0, 0).store,
                moved, "scrape", 0, 0).store : version \in {"batch", "legacy"}}

\* A request arrives now, or a legacy run is in its loop that read the
\* collection (exhibition.service.ts, line 165) while it was still empty.
InitLate ==
  /\ clock = 0
  /\ createdBy = {}
  /\ call = NoCall
  /\ store \in UpdatedStore
  /\ \E early \in BOOLEAN :
       runs = [r \in Slots |->
                 IF r = 1 /\ early
                 THEN [IdleRun EXCEPT !.pc = "loop", !.variant = "legacy",
                                      !.existingExhibitionsMap =
                                         fetchExistingExhibitions(EmptyStore)]
                 ELSE IdleRun]

SpecLate == InitLate /\ [][Next]_vars

\* ============================================================== properties

\* doc is a document as some run stored it when it created `exhibition`.
CreatedFrom(doc, exhibition) ==
  LET name == normalizeVenue(exhibition.venue, museumMaps)
      id == getMuseumId(name, museumMaps)
  IN \E origin \in Origins : \E t1 \in Instants : \E t2 \in Instants :
       \/ doc = newExhibitionBatch(exhibition, id, name, origin, t1, t2)
       \/ doc = newExhibitionLegacy(exhibition, id, name, origin, t1, t2)

\* C1: two invocations of the reconciliation that process the same identity
\* never both report it as created.
C1_OneCreator ==
  \A p \in createdBy : \A q \in createdBy : p[1] = q[1] => p[2] = q[2]

\* C2: a record reconciled by a run that starts after another run created
\* its document, the document being still as created, is skipped and
\* nothing is written for it.
C2_SecondRunSkips ==
  \A r \in Slots : \A q \in runs[r].after : \A k \in DOMAIN runs[r].decisions :
    LET e == runs[r].decisions[k]
    IN ( /\ <<e.documentId, q>> \in createdBy
         /\ e.documentId \in DOMAIN store
         /\ CreatedFrom(store[e.documentId], e.exhibition) )
       => e.action = "skipped" /\ e.write = NoWrite

\* C3: once a document exists, no step changes its createdAt.
C3_CreatedAtFixed ==
  [][\A id \in DOMAIN store :
        id \in DOMAIN store' => store'[id].createdAt = store[id].createdAt]_vars

\* C4: no step decreases the updatedAt of a document.
C4_UpdatedAtMonotone ==
  [][\A id \in DOMAIN store :
        id \in DOMAIN store' => store'[id].updatedAt.v >= store[id].updatedAt.v]_vars

\* C5: no step of the reconciliation removes a document: the identities in
\* the collection only grow.
C5_NeverDeletes == [][DOMAIN store \subseteq DOMAIN store']_vars

C5_Witness ==
  /\ DOMAIN store # {}
  /\ \E r \in Slots :
       /\ runs[r].pc = "returned" /\ runs[r].variant = "batch"
       /\ runs[r].after # {} /\ runs[r].total.updated > 0

\* C6: a record whose venue is unknown resolves to null, is counted as an
\* error before the transaction and never reaches it (no read, no decision,
\* no write for it); runTransaction is called for exactly the groups with a
\* resolved record; a run of unknown venues only reports errors only.
C6_UnknownVenue ==
  /\ \A rec \in Records :
       rec.venue \notin DOMAIN museumMaps.aliasToName
         => normalizeVenue(rec.venue, museumMaps) = NoVenue
  /\ \A r \in Slots :
       LET run == runs[r] IN
       /\ run.total.errors + run.results.errors >= run.unknown
       /\ run.txCalls = run.txGroups
       /\ run.pc = "commit" =>
            /\ Len(run.exhibitionData) = run.batchLen - run.batchUnknown
            /\ Len(run.existingDocs) = Len(run.exhibitionData)
            /\ run.results.errors >= run.batchUnknown
            /\ \A k \in DOMAIN run.exhibitionData :
                 run.exhibitionData[k].exhibition.venue \in DOMAIN museumMaps.aliasToName
            /\ \A k \in DOMAIN run.decisions :
                 run.decisions[k].exhibition.venue \in DOMAIN museumMaps.aliasToName
       /\ (~run.faults /\ run.pc \in {"loop", "returned"}) =>
            run.total.created + run.total.updated + run.total.skipped
              <= run.consumed - run.unknown
       /\ (run.unknown = run.consumed /\ run.pc \in {"loop", "returned"}) =>
            /\ run.total = [Zero EXCEPT !.errors = run.consumed]
            /\ run.txCalls = 0
            /\ \A p \in createdBy : p[2] # r

C6_Witness ==
  \E r \in Slots :
    /\ runs[r].pc = "returned" /\ runs[r].variant = "batch"
    /\ runs[r].consumed = 2 /\ runs[r].unknown = 1
    /\ runs[r].total = [Zero EXCEPT !.created = 1, !.errors = 1]

\* C7: processScrapeResults never rejects, whatever store operation fails.
C7_NeverAborts == \A r \in Slots : runs[r].pc # "threw"

\* C8: when the transaction of a group fails, the group adds nothing to
\* created, updated and skipped, it adds at least one error per record of
\* the group (exactly one when no stored document is unreadable), and the
\* loop goes on to the next group, if any.
C8_FailedGroup ==
  [][LET a == runs[1]
         b == runs'[1]
     IN (b.i # a.i /\ b.group = "failed") =>
          /\ b.total.created = a.total.created
          /\ b.total.updated = a.total.updated
          /\ b.total.skipped = a.total.skipped
          /\ b.total.errors >= a.total.errors + b.batchLen
          /\ b.pre = "empty" => b.total.errors = a.total.errors + b.batchLen
          /\ b.pc = IF b.i < b.n THEN "loop" ELSE "returned"]_vars

C8_Witness ==
  /\ runs[1].pc = "returned" /\ runs[1].gen = "distinct" /\ runs[1].pre = "empty"
  /\ runs[1].n = MaxN /\ runs[1].group = "committed"
  /\ runs[1].total = [Zero EXCEPT !.created = MaxN - BATCH_SIZE, !.errors = BATCH_SIZE]

\* C9: the transaction of a group is all-or-nothing on the collection: the
\* collection does not change while the callback runs or when the group
\* fails, and when the group commits every document it decided to create is
\* there and every document it decided to update is updated.
C9_AllOrNothing ==
  [][LET a == runs[1]
         b == runs'[1]
     IN /\ b.pc = "commit" => store' = store
        /\ (b.i # a.i /\ b.group = "failed") => store' = store
        /\ (b.i # a.i /\ b.group = "committed") =>
             \A k \in DOMAIN a.decisions :
               LET e == a.decisions[k]
               IN /\ e.action = "created" => e.documentId \in DOMAIN store'
                  /\ e.action = "updated" => store'[e.documentId].hasDateChanged]_vars

C9_Witness ==
  /\ runs[1].group = "failed" /\ runs[1].handed = BATCH_SIZE
  /\ runs[1].i = BATCH_SIZE /\ store = EmptyStore

C11_OperationsPerTransaction ==
  \A r \in Slots :
    runs[r].pc = "commit" =>
      /\ Len(runs[r].existingDocs) <= BATCH_SIZE
      /\ Len(runs[r].writes) <= Len(runs[r].existingDocs)
      /\ Len(runs[r].existingDocs) + Len(runs[r].writes) <= 2 * BATCH_SIZE
      /\ 2 * BATCH_SIZE <= TransactionLimit

\* A full group, every record of which is written.
C11_Witness ==
  /\ runs[1].pc = "commit"
  /\ Len(runs[1].existingDocs) = BATCH_SIZE
  /\ Len(runs[1].writes) = BATCH_SIZE

\* The decisions a run holds while its writes are pending: those of the
\* transaction ready to commit, or the one of the awaited set()/update().
Pending(r) ==
  IF runs[r].pc \in {"commit", "write"}
  THEN {runs[r].decisions[k] : k \in DOMAIN runs[r].decisions} ELSE {}

\* The fields of a created document that do not depend on the clock.
CreatedFields(doc, exhibition, origin) ==
  /\ doc.status = "pending"
  /\ doc.origin = origin
  /\ doc.isExcluded = FALSE
  /\ doc.hasDateChanged = FALSE
  /\ doc.venue = normalizeVenue(exhibition.venue, museumMaps)
  /\ doc.venue \in {Registry[j].name : j \in DOMAIN Registry}

\* C12: a record whose identity has no stored document is created, and the
\* document written is pending, of the caller's origin, not excluded, with
\* hasDateChanged false, the canonical venue name, and createdAt equal to
\* updatedAt.
C12_CreatedDocument ==
  \A r \in Slots : \A e \in Pending(r) :
    /\ e.documentId \notin DOMAIN store => e.action = "created"
    /\ e.action = "created" =>
         /\ e.write.op = "set"
         /\ CreatedFields(e.write.doc, e.exhibition, OriginOf(r))
         /\ e.write.doc.createdAt = e.write.doc.updatedAt

\* C13: a created document has an officialUrl exactly when the call's
\* origin is 'scrape' and the record's officialUrl is present and not empty;
\* a document of origin 'scrape-feed' never has one.
C13_OfficialUrl ==
  call.fn = "newExhibition" =>
    /\ call.result.officialUrl # Undefined
          <=> (call.origin = "scrape" /\ Truthy(call.exhibition.officialUrl))
    /\ call.result.origin = "scrape-feed" => call.result.officialUrl = Undefined

\* Both dates of the stored document equal the incoming ones.
DatesEqual(stored, exhibition) ==
  /\ areDatesEqual(stored.startDate, exhibition.startDate) = "true"
  /\ areDatesEqual(stored.endDate, exhibition.endDate) = "true"

\* What the legacy run r decides for a record it would read next.
LegacyDecision(r, exhibition) ==
  processExhibition(exhibition, museumMaps, runs[r].existingExhibitionsMap,
                    runs[r].origin, clock, clock)

LegacyReading == {r \in Slots : runs[r].variant = "legacy" /\ runs[r].pc = "loop"}

\* The counts of the outcomes that write, over all runs.
Writing(rs) ==
  [r \in Slots |-> <<rs[r].total.created, rs[r].total.updated>>]

\* C14: a record whose document exists with both dates equal to the
\* incoming ones is skipped; nothing is written for it, and a step that
\* only counts skipped records leaves every document as it was.
C14_Skipped ==
  /\ [](\A r \in Slots : \A e \in Pending(r) :
          /\ (runs[r].variant = "batch" /\ e.prior.exists
                 /\ e.prior.data # Undefined /\ DatesEqual(e.prior.data, e.exhibition))
               => e.action = "skipped"
          /\ e.action = "skipped" => e.write = NoWrite)
  /\ [](\A r \in LegacyReading : \A exhibition \in Records :
          LET dec == LegacyDecision(r, exhibition) IN
          (/\ dec.documentId \in DOMAIN runs[r].existingExhibitionsMap
           /\ DatesEqual(runs[r].existingExhibitionsMap[dec.documentId], exhibition))
            => dec.action = "skipped" /\ dec.write = NoWrite)
  /\ [][(/\ \E r \in Slots : runs'[r].total.skipped > runs[r].total.skipped
          /\ Writing(runs') = Writing(runs))
         => store' = store]_vars

\* A run has skipped a record of a document that an earlier run created.
C14_Witness ==
  \E r \in Slots :
    /\ runs[r].total.skipped > 0
    /\ runs[r].total.created = 0 /\ runs[r].total.updated = 0
    /\ \E id \in DOMAIN store : store[id].hasDateChanged = FALSE

\* The stored form of an incoming date: its instant, or one of the markers
\* of an absent date (no field, or the empty string).
StoredForms(date) ==
  IF Truthy(date) THEN {TokyoMidnight(date)} ELSE {Undefined, EmptyString}

\* The pending decisions of run r whose write is the only one of the run
\* to its document.
SoleWrites(r) ==
  {e \in Pending(r) :
     Cardinality({k \in DOMAIN runs[r].writes :
                    runs[r].writes[k].id = e.documentId}) = 1}

\* C15: a record whose document exists with a date that differs is updated,
\* and once the update is applied the stored startDate and endDate are the
\* incoming dates (the absent marker for an absent one), hasDateChanged is
\* true and updatedAt is the instant of the update.
C15_Updated ==
  /\ [](\A r \in Slots : \A e \in Pending(r) :
          (/\ runs[r].variant = "batch" /\ e.prior.exists /\ e.prior.data # Undefined
           /\ {areDatesEqual(e.prior.data.startDate, e.exhibition.startDate),
               areDatesEqual(e.prior.data.endDate, e.exhibition.endDate)}
                 \in {{"false"}, {"true", "false"}})
            => e.action = "updated")
  /\ [][\A r \in Slots : \A e \in SoleWrites(r) :
          (e.action = "updated" /\ runs'[r].total.updated > runs[r].total.updated)
            => /\ store'[e.documentId].startDate \in StoredForms(e.exhibition.startDate)
               /\ store'[e.documentId].endDate \in StoredForms(e.exhibition.endDate)
               /\ store'[e.documentId].hasDateChanged = TRUE
               /\ store'[e.documentId].updatedAt = e.write.doc.updatedAt]_vars

\* The fields an update has no business with.
FrameFields ==
  {"title", "venue", "museumId", "status", "origin", "isExcluded", "officialUrl",
   "createdAt"}

\* C16: applying an update leaves title, venue, museumId, status, origin,
\* isExcluded, officialUrl and createdAt of the document as they were.
C16_UpdateFrame ==
  [][\A r \in Slots : \A e \in Pending(r) :
       (e.action = "updated" /\ runs'[r].total.updated > runs[r].total.updated)
         => /\ e.documentId \in DOMAIN store
            /\ \A f \in FrameFields :
                 store'[e.documentId][f] = store[e.documentId][f]]_vars

\* A document created by POST /scrape with an official URL has been
\* updated by POST /scrape-feed.
C16_Witness ==
  /\ runs[2].origin = "scrape-feed" /\ runs[2].total.updated > 0
  /\ \E id \in DOMAIN store :
       /\ store[id].hasDateChanged = TRUE
       /\ store[id].origin = "scrape"
       /\ store[id].officialUrl = Str(9)

\* C17: areDatesEqual is true when both dates are absent (an incoming
\* null, undefined or '' is absent), false when exactly one is, and when
\* both are present true exactly when the incoming day at 00:00 Asia/Tokyo
\* is the stored instant; it returns a boolean and never throws.
C17_DatesEqual ==
  call.fn = "areDatesEqual" =>
    /\ call.result \in {"true", "false"}
    /\ call.result = "true" <=>
         IF ~Truthy(call.existing) /\ ~Truthy(call.incoming) THEN TRUE
         ELSE IF ~Truthy(call.existing) \/ ~Truthy(call.incoming) THEN FALSE
         ELSE call.existing.v = call.incoming.v * 86400 - 9 * 3600

\* The records both of whose dates are absent.
Dateless == {x \in Records : ~Truthy(x.startDate) /\ ~Truthy(x.endDate)}

\* doc is as a run stored it when it created a record without dates.
CreatedDateless(doc) ==
  doc.hasDateChanged = FALSE /\ \E x \in Dateless : CreatedFrom(doc, x)

\* C18: a document created from a record with both dates absent, and
\* reconciled again with a record of its identity with both dates absent,
\* is skipped: the absent date that create writes is one areDatesEqual
\* takes as absent.
C18_AbsentNoOp ==
  /\ \A r \in Slots : \A e \in Pending(r) :
       (/\ runs[r].variant = "batch" /\ e.exhibition \in Dateless
        /\ e.prior.exists /\ e.prior.data # Undefined
        /\ CreatedDateless(e.prior.data))
         => e.action = "skipped"
  /\ \A r \in LegacyReading : \A exhibition \in Dateless :
       LET dec == LegacyDecision(r, exhibition) IN
       (/\ dec.documentId \in DOMAIN runs[r].existingExhibitionsMap
        /\ dec.documentId \in DOMAIN store
        /\ CreatedDateless(store[dec.documentId])
        /\ runs[r].existingExhibitionsMap[dec.documentId]
             = [startDate |-> store[dec.documentId].startDate,
                endDate |-> store[dec.documentId].endDate])
         => dec.action = "skipped"

\* A stored date is absent and the incoming one is present.
NowKnown(stored, exhibition) ==
  \/ ~Truthy(stored.startDate) /\ Truthy(exhibition.startDate)
  \/ ~Truthy(stored.endDate) /\ Truthy(exhibition.endDate)

\* The update `write` stores every present date of the record.
WritesKnown(write, exhibition) ==
  /\ write.op = "update"
  /\ Truthy(exhibition.startDate) =>
       /\ "startDate" \in DOMAIN write.doc
       /\ write.doc.startDate = TokyoMidnight(exhibition.startDate)
  /\ Truthy(exhibition.endDate) =>
       /\ "endDate" \in DOMAIN write.doc
       /\ write.doc.endDate = TokyoMidnight(exhibition.endDate)

\* C19: a record that brings a date its stored document lacks is updated,
\* neither counted as an error nor skipped, and the update stores the date.
C19_DateBecomesKnown ==
  /\ \A r \in Slots : \A e \in Pending(r) :
       (/\ runs[r].variant = "batch" /\ e.prior.exists /\ e.prior.data # Undefined
        /\ NowKnown(e.prior.data, e.exhibition))
         => e.action = "updated" /\ WritesKnown(e.write, e.exhibition)
  /\ \A r \in LegacyReading : \A exhibition \in Records :
       LET dec == LegacyDecision(r, exhibition) IN
       (/\ dec.documentId \in DOMAIN runs[r].existingExhibitionsMap
        /\ NowKnown(runs[r].existingExhibitionsMap[dec.documentId], exhibition))
         => dec.action = "updated" /\ WritesKnown(dec.write, exhibition)

\* The canonical name and the aliases of a venue.
NamesOf(museum) == {museum.name} \cup {museum.aliases[k] : k \in DOMAIN museum.aliases}

\* Every name of venue j resolves to its canonical name.
ResolvesToCanonical(museums, maps, j) ==
  \A x \in NamesOf(museums[j]) : normalizeVenue(x, maps) = museums[j].name

\* No other venue of the registry goes by a name of venue j.
NamesItsOwn(museums, j) ==
  \A i \in DOMAIN museums \ {j} : NamesOf(museums[i]) \cap NamesOf(museums[j]) = {}

\* C20 as stated: for the maps built from a registry, every alias of a
\* venue and its canonical name resolve to the canonical name.
C20_AliasTransitivity ==
  call.fn = "buildMuseumMaps" =>
    \A j \in DOMAIN call.museums :
      ResolvesToCanonical(call.museums, call.result, j)

\* C20, amended: for the maps built from a registry, every alias of a venue
\* and its canonical name resolve to the canonical name, provided no other
\* venue of the registry has one of these names as its name or alias.
C20_AliasTransitivityOwnNames ==
  call.fn = "buildMuseumMaps" =>
    \A j \in DOMAIN call.museums :
      NamesItsOwn(call.museums, j) =>
        ResolvesToCanonical(call.museums, call.result, j)

\* Maps built from two venues, the first with two aliases of its own.
C20_Witness ==
  /\ call.fn = "buildMuseumMaps"
  /\ Len(call.museums) = 2
  /\ call.museums[1].aliases = <<"A", "B">>
  /\ NamesItsOwn(call.museums, 1)
  /\ normalizeVenue("B", call.result) = "M"

\* C21: in the maps built from any registry, also one where a venue's alias
\* is another venue's canonical name or alias, every canonical name maps to
\* itself in aliasToName and to its own venue's ID in nameToId.
C21_CanonicalNames ==
  call.fn = "buildMuseumMaps" =>
    \A j \in DOMAIN call.museums :
      LET museum == call.museums[j] IN
      /\ museum.name \in DOMAIN call.result.aliasToName
      /\ call.result.aliasToName[museum.name] = museum.name
      /\ museum.name \in DOMAIN call.result.nameToId
      /\ call.result.nameToId[museum.name] = museum.id

\* The records of a group whose venue resolves to a name without an ID.
WithoutId(exhibitions, maps) ==
  {k \in DOMAIN exhibitions :
     /\ exhibitions[k].venue \in DOMAIN maps.aliasToName
     /\ maps.aliasToName[exhibitions[k].venue] \notin DOMAIN maps.nameToId}

\* The records of a group whose venue resolves to a name with an ID.
WithId(exhibitions, maps) ==
  {k \in DOMAIN exhibitions :
     /\ exhibitions[k].venue \in DOMAIN maps.aliasToName
     /\ maps.aliasToName[exhibitions[k].venue] \in DOMAIN maps.nameToId}

\* C22: a record whose canonical name has no registered ID counts as one
\* error and no more (the other errors are the unknown venues), and every
\* record whose name has an ID goes on with that ID, in input order; the
\* legacy version decides an error for the former and a create for the
\* latter.
C22_MuseumIdNotFound ==
  call.fn = "prepareBatch" =>
    LET missing == WithoutId(call.exhibitions, call.maps)
        found == WithId(call.exhibitions, call.maps)
        data == call.result.exhibitionData
    IN /\ call.result.results.errors
            = Cardinality(missing)
              + Cardinality(DOMAIN call.exhibitions \ (missing \cup found))
       /\ Len(data) = Cardinality(found)
       /\ \A i \in DOMAIN data :
            \E k \in found :
              /\ data[i].exhibition = call.exhibitions[k]
              /\ data[i].museumId
                   = call.maps.nameToId[call.maps.aliasToName[call.exhibitions[k].venue]]
              /\ Cardinality({j \in found : j < k}) = i - 1
       /\ \A k \in missing : call.legacy[k] = "error"
       /\ \A k \in found : call.legacy[k] = "created"

\* A group whose first record has a name without an ID and whose last
\* record is prepared.
C22_Witness ==
  /\ call.fn = "prepareBatch"
  /\ Len(call.exhibitions) = 3
  /\ 1 \in WithoutId(call.exhibitions, call.maps)
  /\ 3 \in WithId(call.exhibitions, call.maps)
  /\ call.result.results.errors = 1
  /\ Len(call.result.exhibitionData) = 2

\* The venue a scraped venue string stands for: the ID of the venue it
\* resolves to, "NotFoundError" for none.
VenueOf(venue) ==
  getMuseumId(normalizeVenue(AsName(venue), museumMaps), museumMaps)

\* C23: two records with the same title whose venue strings are names of
\* the same venue (aliases or the canonical name) derive the same document
\* ID.
C23_SameIdentity ==
  (/\ call.fn = "identity"
   /\ call.titles[1] = call.titles[2]
   /\ VenueOf(call.venues[1]) # "NotFoundError"
   /\ VenueOf(call.venues[1]) = VenueOf(call.venues[2]))
    => /\ call.result[1] # "none"
       /\ call.result[1] = call.result[2]

\* C24: a document is created or changed only by the commit of a
\* transaction: every step that changes the collection is the commit of a
\* run's open transaction and applies the writes handed to it.
C24_WritesInTransaction ==
  [][store' # store =>
       \E r \in Slots :
         /\ runs[r].pc = "commit"
         /\ runs'[r].group = "committed"
         /\ store' = ApplyWrites(store, runs[r].writes)]_vars

\* The open transactions.
Open == {r \in Slots : runs[r].pc = "commit"}

\* C25: the reads of a transaction are all taken before its first write:
\* there is one snapshot per prepared record, two records of the same
\* document have the same snapshot, and while no other transaction has
\* written what it read, each snapshot is the document as stored, without
\* the writes the transaction itself holds.
C25_ReadsBeforeWrites ==
  \A r \in Open :
    LET data == runs[r].exhibitionData
        docs == runs[r].existingDocs
    IN /\ DOMAIN docs = DOMAIN data
       /\ \A i \in DOMAIN data : \A j \in DOMAIN data :
            data[i].documentId = data[j].documentId => docs[i] = docs[j]
       /\ ~runs[r].stale =>
            \A k \in DOMAIN data : docs[k] = Snapshot(store, data[k].documentId)

\* A transaction holds a write for a document it read as missing, and has
\* read it again as missing for a second record.
C25_Witness ==
  \E r \in Open :
    /\ Len(runs[r].exhibitionData) = 2
    /\ runs[r].exhibitionData[1].documentId = runs[r].exhibitionData[2].documentId
    /\ ~runs[r].existingDocs[2].exists
    /\ Len(runs[r].writes) = 2

\* The records of the open transaction of run r whose stored document
\* exists without data.
Malformed(r) ==
  {k \in DOMAIN runs[r].decisions :
     /\ runs[r].decisions[k].prior.exists
     /\ runs[r].decisions[k].prior.data = Undefined}

Decided(r, action) ==
  Cardinality({k \in DOMAIN runs[r].decisions : runs[r].decisions[k].action = action})

EnabledAt(collection) ==
  {j \in DOMAIN collection : collection[j].data.scrapeEnabled}

\* C27: fetchEnabledMuseumsWithUrls returns exactly the documents of the
\* collection whose scrapeEnabled is true, in collection order, each with
\* its document ID as id, and startUrls has one GET entry per returned
\* venue, in the same order, with that venue's scrapeUrl.
C27_EnabledMuseums ==
  call.fn = "fetchEnabledMuseumsWithUrls" =>
    LET museums == call.result.museums
        startUrls == call.result.startUrls
        at == EnabledAt(call.collection)
    IN /\ Len(museums) = Cardinality(at)
       /\ \A j \in at :
            LET pos == Cardinality({i \in at : i <= j})
            IN /\ museums[pos].id = call.collection[j].id
               /\ museums[pos].scrapeEnabled
               /\ museums[pos].name = call.collection[j].data.name
               /\ museums[pos].scrapeUrl = call.collection[j].data.scrapeUrl
       /\ Len(startUrls) = Len(museums)
       /\ \A j \in DOMAIN museums :
            startUrls[j] = [url |-> museums[j].scrapeUrl, method |-> "GET"]

\* C28: runActorAndGetResults returns the dataset items unchanged when the
\* actor call and the dataset fetch both succeed; when either fails, with an
\* Error or with anything else, it rejects with an ExternalServiceError of
\* service Apify, and neither items nor the raw failure come out.
C28_ActorResults ==
  call.fn = "runActorAndGetResults" =>
    LET ok == /\ call.actorCall.settled = "resolved"
              /\ call.listItems.settled = "resolved"
    IN /\ ok => call.result = [kind |-> "return", value |-> call.listItems.value.items]
       /\ ~ok =>
            /\ call.result.kind = "throw"
            /\ DOMAIN call.result = {"kind", "error"}
            /\ call.result.error \notin Failures
            /\ call.result.error.name = "ExternalServiceError"
            /\ call.result.error.service = "Apify"

\* The actor ran, and the dataset fetch was rejected with a value that is
\* not an Error.
C28_Witness ==
  /\ call.fn = "runActorAndGetResults"
  /\ call.actorCall.settled = "resolved"
  /\ call.listItems.settled = "rejected"
  /\ ~call.listItems.reason.isError
  /\ call.result.kind = "throw"
  /\ call.result.error.message = <<"Failed to run Apify actor: ", "Unknown error">>

\* The records of the group of a generated input that starts after the
\* first i records, as the transaction of that group holds them.
GroupOf(run) ==
  prepareBatch([k \in 1..(Min(run.i + BATCH_SIZE, run.n) - run.i) |->
                  RecordAt(run.gen, run.i + k)], museumMaps).exhibitionData

\* C29: groups are processed one after the other in input order: the
\* transaction in flight is that of the group after the i records of the
\* groups already ended, it is the only one started and not ended, and a
\* transaction is started only when the group before it has committed,
\* failed or had nothing to write.
C29_SequentialGroups ==
  /\ [](LET run == runs[1]
        IN /\ run.i % BATCH_SIZE = 0
           /\ run.pc = "commit" =>
                /\ run.exhibitionData = GroupOf(run)
                /\ run.txCalls = run.i \div BATCH_SIZE + 1
           /\ run.pc \in {"loop", "returned"} =>
                /\ run.exhibitionData = <<>>
                /\ run.txCalls = run.i \div BATCH_SIZE)
  /\ [][LET a == runs[1]
            b == runs'[1]
        IN /\ b.i # a.i => b.i = a.i + BATCH_SIZE
           /\ b.txCalls # a.txCalls =>
                /\ b.txCalls = a.txCalls + 1
                /\ a.pc = "loop"
                /\ a.i > 0 => a.group \in {"committed", "failed"}
                /\ b.pc = "commit" \/ (b.group = "failed" /\ b.i = a.i + BATCH_SIZE)]_vars

\* The transaction of the second group is in flight after the first one
\* failed.
C29_Witness ==
  /\ runs[1].pc = "commit" /\ runs[1].i = BATCH_SIZE
  /\ runs[1].txCalls = 2 /\ runs[1].group = "failed"
  /\ runs[1].n = MaxN /\ Len(runs[1].exhibitionData) > 0

\* C30: nothing is retried by processScrapeResults: runTransaction is
\* called at most once per group, only from the head of the loop, and every
\* step that counts an error for a record or group moves the loop past it,
\* the position in the input never going back.
C30_NoRetry ==
  /\ [](\A r \in Slots :
          runs[r].variant = "batch" =>
            runs[r].txCalls <= runs[r].i \div BATCH_SIZE
                                + IF runs[r].pc = "commit" THEN 1 ELSE 0)
  /\ [][\A r \in Slots :
          LET a == runs[r]
              b == runs'[r]
          IN /\ b.i >= a.i
             /\ b.total.errors > a.total.errors => b.i > a.i
             /\ b.txCalls # a.txCalls =>
                  /\ b.txCalls = a.txCalls + 1
                  /\ a.pc \in {"idle", "loop"}]_vars

\* A run has returned after the transaction of its only group, which held
\* writes, failed: the group's records are errors and runTransaction was
\* called once.
C30_Witness ==
  \E r \in Slots :
    /\ runs[r].variant = "batch" /\ runs[r].pc = "returned"
    /\ runs[r].group = "failed" /\ runs[r].handed > 0
    /\ runs[r].txCalls = 1 /\ runs[r].unknown = 0
    /\ runs[r].total.errors = runs[r].consumed

\* The records a count reports in all.
Sum(counts) == counts.created + counts.updated + counts.skipped + counts.errors

\* C31: the counts a run returns add up to the number of its input records.
C31_CountConservation ==
  \A r \in Slots :
    runs[r].pc = "returned" => Sum(runs[r].total) = runs[r].consumed

\* C32: a run that was alone on a collection that was empty, none of whose
\* transactions failed or was invoked again, returns as created the number
\* of documents the collection now holds.
C32_CreatedCount ==
  (/\ runs[1].pc = "returned" /\ runs[2].pc = "idle"
   /\ ~runs[1].faults)
    => runs[1].total.created = Cardinality(DOMAIN store)

\* C33: a record that a run reported updated is skipped when the next run
\* reconciles it again, whichever of its dates are given.
C33_Convergence ==
  (call.fn = "reconcileAgain" /\ call.actions[2] = "updated")
    => call.actions[3] = "skipped"

\* C34: no step of a run changes the status, isExcluded or origin of a
\* document that is active, excluded or of origin manual, or removes it.
C34_CurationKept ==
  [][\A id \in DOMAIN store :
        IsCurated(store[id]) =>
          /\ id \in DOMAIN store'
          /\ store'[id] # Undefined
          /\ store'[id].status = store[id].status
          /\ store'[id].isExcluded = store[id].isExcluded
          /\ store'[id].origin = store[id].origin]_vars

\* C35: in the maps built from any registry, every name the alias-or-name
\* map resolves to is the name of a venue and has an ID in the name-to-ID
\* map, the ID of a venue of the registry, so getMuseumId succeeds on every
\* resolved name.
C35_ResolvedHasId ==
  call.fn = "buildMuseumMaps" =>
    \A x \in DOMAIN call.result.aliasToName :
      LET name == normalizeVenue(x, call.result)
      IN /\ name \in DOMAIN call.result.nameToId
         /\ getMuseumId(name, call.result) # "NotFoundError"
         /\ \E j \in DOMAIN call.museums : call.museums[j].name = name
         /\ \E j \in DOMAIN call.museums :
              call.museums[j].id = getMuseumId(name, call.result)

\* Maps of two venues, the first without aliases, the second with the
\* first one's name as an alias: that name resolves to the second venue.
C35_Witness ==
  /\ call.fn = "buildMuseumMaps"
  /\ Len(call.museums) = 2
  /\ call.museums[1].aliases = <<>>
  /\ call.museums[2].aliases = <<"M">>
  /\ normalizeVenue("M", call.result) = "N"
  /\ getMuseumId("N", call.result) = "m2"
  /\ getMuseumId("M", call.result) = "m1"

\* C36: a document is created with hasDateChanged false, the flag becomes
\* true only in a step in which a run counts an update, and no step sets it
\* back to false.
C36_HasDateChangedMonotone ==
  [][\A id \in DOMAIN store' :
        IF id \in DOMAIN store
        THEN /\ store[id].hasDateChanged => store'[id].hasDateChanged
             /\ (~store[id].hasDateChanged /\ store'[id].hasDateChanged)
                  => \E r \in Slots : runs'[r].total.updated > runs[r].total.updated
        ELSE ~store'[id].hasDateChanged]_vars

\* C37: the keys of the alias-or-name map built from a registry are the
\* canonical names and the aliases of its venues and nothing else, every
\* value is a canonical name of the registry, and an empty registry gives
\* two empty maps.
C37_KeySet ==
  call.fn = "buildMuseumMaps" =>
    /\ DOMAIN call.result.aliasToName
         = UNION {NamesOf(call.museums[j]) : j \in DOMAIN call.museums}
    /\ \A x \in DOMAIN call.result.aliasToName :
         \E j \in DOMAIN call.museums :
           call.result.aliasToName[x] = call.museums[j].name
    /\ call.museums = <<>> =>
         /\ DOMAIN call.result.aliasToName = {}
         /\ DOMAIN call.result.nameToId = {}

\* Maps of a venue without aliases and a venue with two: four keys.
C37_Witness ==
  /\ call.fn = "buildMuseumMaps"
  /\ Len(call.museums) = 2
  /\ call.museums[1].aliases = <<>>
  /\ call.museums[2].aliases = <<"A", "B">>
  /\ DOMAIN call.result.aliasToName = {"M", "N", "A", "B"}
  /\ call.result.aliasToName["M"] = "M"

====
